---- MODULE Spec2Model ----
(***************************************************************************)
(* The parts of scrapedin, each with its own specification:                *)
(*   Spec / FairSpec       the two harvests, scrape_employees              *)
(*                         (scrapers/company/get_employees.py) and         *)
(*                         JobScraper.search (scrapers/job/get_job.py)     *)
(*   NavSpec / FairNavSpec robust_navigate (scrapers/utils.py)             *)
(*   SessSpec              LinkedInSession (session.py)                    *)
(*   CompanySpec           CompanyScraper.scrape_profile                   *)
(*                         (scrapers/company/get_company.py)               *)
(*   PairSpec              two runs of scrape_employees side by side       *)
(*   ClickSpec /           resilient_click (scrapers/utils.py)             *)
(*   FairClickSpec                                                         *)
(*   ConnSpec              scrape_connections                              *)
(*                         (scrapers/person/connections.py)                *)
(* One harvest runs from its call (lists empty, filter step ahead) until   *)
(* it returns or an exception leaves it.  The browser page is the          *)
(* environment: scrolls and evaluations may raise, every extraction yields *)
(* an arbitrary list of cards, and the show-more / next-page control is    *)
(* available for a number of rounds fixed by the page.                     *)
(***************************************************************************)
EXTENDS Integers, Sequences, FiniteSets, TLC

\* ---------------------------------------------------------------- bounds
MaxBrowsers == 2  \* most browsers one session starts
NumKeys == 2      \* distinct real-world profiles / job ids on the site
MaxCards == 3     \* most cards one page.evaluate() returns
MaxPages == 2     \* most times a finite advance control stays available
MaxFed == 2       \* most cards one of two concurrent runs handles
MaxConnCards == 3 \* most cards the connections container holds

\* The round counter saturates here; a converging harvest never gets there.
MaxRounds == NumKeys + 4

Ids == 1..NumKeys

\* ------------------------------------------------------------ page data
\* A profile href as the page hands it over (after the in-page split('?')):
\*   canon  "https://www.linkedin.com/in/u<id>"
\*   alias  the same location spelled differently ("https://WWW.LinkedIn.com/in/u<id>")
\*   bad    not an absolute http(s) URL ("/in/u<id>")
\* Every profile occurs in the canon and the bad spelling; the profiles in
\* Aliased also occur in the alias spelling.
Aliased == {1}
ProfileUrls ==
  [id : Ids, form : {"canon", "bad"}] \cup [id : Aliased, form : {"alias"}]

Names == {"Ann", "LinkedIn Member", "LinkedIn Member (3rd)"}
Positions == {"null", "Engineer"}

EmployeeData == [url : ProfileUrls, name : Names, position : Positions]

\* A job-card href: id = 0 stands for an href without "/jobs/view/<digits>/",
\* query is the tracking suffix after '?', and NullHref is a card whose link
\* has no href attribute (getAttribute returns null).
NullHref == [id |-> 0, query |-> "null"]
JobHrefs == [id : 0..NumKeys, query : {"", "?trk"}] \cup {NullHref}
Titles == {"Dev", "Ops"}

\* wellformed: whether the card's fields pass the validation of Job(...).
JobData == [url : JobHrefs, title : Titles, wellformed : BOOLEAN]

\* ------------------------------------------------------- pure functions
\* pydantic's HttpUrl: rejects what is not an absolute http(s) URL and
\* stores the normalised spelling of what it accepts.
HttpUrlValid(u) == u.form # "bad"

HttpUrl(u) == [id |-> u.id, form |-> "canon"]

\* "LinkedIn Member" in data["name"]
IsAnonymous(name) == name \in {"LinkedIn Member", "LinkedIn Member (3rd)"}

\* Employee(name=..., position=..., profile_url=HttpUrl(data["url"]))
Employee(d) ==
  [name |-> d.name, position |-> d.position, profile_url |-> HttpUrl(d.url)]

\* re.search(r"/jobs/view/(\d+)/", data["url"]) ; 0 stands for None
JobId(href) == href.id

\* Job(job_id=..., linkedin_url=HttpUrl("https://www.linkedin.com" + url.split('?')[0]), ...)
Job(d) ==
  [job_id |-> JobId(d.url),
   linkedin_url |-> [id |-> d.url.id, query |-> ""],
   title |-> d.title]

\* An accepted record together with the dedup key it was accepted under
\* (data["url"] for an employee, job_id for a job).
Entry(k, r) == [key |-> k, item |-> r]

KeysOf(recs) == {recs[i].key : i \in 1..Len(recs)}

\* Mutation of EmployeeItemStep: the membership test on the seen set is gone.
EmployeeItemStepNoDedup(d, recs, keys) ==
  IF ~IsAnonymous(d.name)
    THEN IF HttpUrlValid(d.url)
           THEN [scraped |-> Append(recs, Entry(d.url, Employee(d))),
                 seen |-> keys \cup {d.url},
                 fate |-> "accepted"]
           ELSE [scraped |-> recs, seen |-> keys, fate |-> "failed"]
    ELSE [scraped |-> recs, seen |-> keys, fate |-> "filtered"]

\* Mutation of EmployeeItemStep: a card met again replaces the content of
\* the record stored under its key.
EmployeeItemStepOverwrites(d, recs, keys) ==
  IF d.url \notin keys /\ ~IsAnonymous(d.name)
    THEN IF HttpUrlValid(d.url)
           THEN [scraped |-> Append(recs, Entry(d.url, Employee(d))),
                 seen |-> keys \cup {d.url},
                 fate |-> "accepted"]
           ELSE [scraped |-> recs, seen |-> keys, fate |-> "failed"]
    ELSE IF d.url \in keys
      THEN [scraped |-> [i \in 1..Len(recs) |->
                          IF recs[i].key = d.url
                            THEN Entry(d.url, Employee(d)) ELSE recs[i]],
            seen |-> keys,
            fate |-> "duplicate"]
      ELSE [scraped |-> recs, seen |-> keys, fate |-> "filtered"]

\* Mutation of EmployeeItemStep: the test on "LinkedIn Member" is gone.
EmployeeItemStepNoFilter(d, recs, keys) ==
  IF d.url \notin keys
    THEN IF HttpUrlValid(d.url)
           THEN [scraped |-> Append(recs, Entry(d.url, Employee(d))),
                 seen |-> keys \cup {d.url},
                 fate |-> "accepted"]
           ELSE [scraped |-> recs, seen |-> keys, fate |-> "failed"]
    ELSE [scraped |-> recs, seen |-> keys, fate |-> "duplicate"]

\* The body of `for data in employee_data_list` for one card.
EmployeeItemStep(d, recs, keys) ==
  IF d.url \notin keys /\ ~IsAnonymous(d.name)
    THEN IF HttpUrlValid(d.url)
           THEN [scraped |-> Append(recs, Entry(d.url, Employee(d))),
                 seen |-> keys \cup {d.url},
                 fate |-> "accepted"]
           ELSE [scraped |-> recs, seen |-> keys, fate |-> "failed"]
    ELSE [scraped |-> recs, seen |-> keys,
          fate |-> IF d.url \in keys THEN "duplicate" ELSE "filtered"]

\* Mutation of JobItemStep: a new job is put in front of the list.
JobItemStepPrepend(d, recs, keys) ==
  IF d.url = NullHref
    THEN [scraped |-> recs, seen |-> keys, fate |-> "failed"]
    ELSE IF JobId(d.url) = 0 \/ JobId(d.url) \in keys
      THEN [scraped |-> recs, seen |-> keys,
            fate |-> IF JobId(d.url) = 0 THEN "filtered" ELSE "duplicate"]
      ELSE IF d.wellformed
        THEN [scraped |-> <<Entry(JobId(d.url), Job(d))>> \o recs,
              seen |-> keys \cup {JobId(d.url)},
              fate |-> "accepted"]
        ELSE [scraped |-> recs, seen |-> keys, fate |-> "failed"]

\* Mutation of JobItemStep: the job id goes into the seen set before the
\* Job is constructed.
JobItemStepMarksFirst(d, recs, keys) ==
  IF d.url = NullHref
    THEN [scraped |-> recs, seen |-> keys, fate |-> "failed"]
    ELSE IF JobId(d.url) = 0 \/ JobId(d.url) \in keys
      THEN [scraped |-> recs, seen |-> keys,
            fate |-> IF JobId(d.url) = 0 THEN "filtered" ELSE "duplicate"]
      ELSE IF d.wellformed
        THEN [scraped |-> Append(recs, Entry(JobId(d.url), Job(d))),
              seen |-> keys \cup {JobId(d.url)},
              fate |-> "accepted"]
        ELSE [scraped |-> recs, seen |-> keys \cup {JobId(d.url)},
              fate |-> "failed"]

\* The body of `for data in job_data_list` for one card.
JobItemStep(d, recs, keys) ==
  IF d.url = NullHref
    THEN [scraped |-> recs, seen |-> keys, fate |-> "failed"]
    ELSE IF JobId(d.url) = 0 \/ JobId(d.url) \in keys
      THEN [scraped |-> recs, seen |-> keys,
            fate |-> IF JobId(d.url) = 0 THEN "filtered" ELSE "duplicate"]
      ELSE IF d.wellformed
        THEN [scraped |-> Append(recs, Entry(JobId(d.url), Job(d))),
              seen |-> keys \cup {JobId(d.url)},
              fate |-> "accepted"]
        ELSE [scraped |-> recs, seen |-> keys, fate |-> "failed"]

\* Mutation of NextIndex: a failed card ends the for loop (`break`).
NextIndexBreaks(fate, i, n) == IF fate = "failed" THEN n ELSE i + 1

\* Where the for loop goes after one card: `continue` in every case.
NextIndex(fate, i, n) == i + 1

\* Mutation of Converged: the loop stops only once something was collected.
ConvergedNonEmpty(len, last) == len = last /\ len > 0

\* Mutation of Converged: a round that added a single record also stops.
ConvergedEarly(len, last) == len <= last + 1

\* if len(scraped_employees) == last_count: break
Converged(len, last) == len = last

\* Mutations of AfterAdvance: no break at all; no break in the else branch;
\* the except branch re-raises.
AfterAdvanceNeverBreaks(outcome) == "loop"

AfterAdvanceHiddenContinues(outcome) ==
  IF outcome = "error" THEN "done" ELSE "loop"

AfterAdvanceErrorRaises(outcome) ==
  IF outcome = "clicked" THEN "loop"
  ELSE IF outcome = "error" THEN "raised" ELSE "done"

\* What the advance block does with what it observed:
\*   "clicked" control visible (and enabled), click and wait went through
\*   "hidden"  control not visible / not enabled         -> else: break
\*   "error"   any exception inside the try               -> except: break
AfterAdvance(outcome) == IF outcome = "clicked" THEN "loop" ELSE "done"

\* What follows the query/filter step:
\*   "ok"      every wait, fill, press and click went through
\*   "timeout" one of them raised PlaywrightTimeoutError
\*   "error"   one of them raised another exception
\* scrape_employees has `except PlaywrightTimeoutError`, JobScraper.search
\* has `except Exception`; both handlers return the empty list.
AfterFilter(k, outcome) ==
  IF outcome = "ok" THEN "container"
  ELSE IF outcome = "timeout" \/ k = "jobs" THEN "done" ELSE "raised"

\* Mutation of AfterContainer: the timeout of the wait is not caught.
AfterContainerTimeoutRaises(outcome) ==
  IF outcome = "ok" THEN "loop" ELSE "raised"

\* What follows the wait for the list container: both harvests have
\* `except PlaywrightTimeoutError: return` around it.
AfterContainer(outcome) ==
  IF outcome = "ok" THEN "loop"
  ELSE IF outcome = "timeout" THEN "done" ELSE "raised"

\* Cards that a harvest accepts when their key is new.
AcceptableEmployee(d) == ~IsAnonymous(d.name) /\ HttpUrlValid(d.url)
AcceptableJob(d) == d.url # NullHref /\ JobId(d.url) # 0 /\ d.wellformed

Min(a, b) == IF a < b THEN a ELSE b

\* History only: whether the record stored under key k differs from item.
StoredDiffers(k, item, recs) ==
  \E i \in 1..Len(recs) : recs[i].key = k /\ recs[i].item # item

\* History only: the trail entry of a card.  Told apart are a card met
\* again with other content than the record stored under its key, and a
\* card accepted under a key that was turned down before.
Tag(fate, k, item, recs, rej) ==
  IF fate = "duplicate" /\ StoredDiffers(k, item, recs) THEN "duplicate_changed"
  ELSE IF fate = "accepted" /\ k \in rej THEN "accepted_retry"
  ELSE fate

\* ---------------------------------------------------------------- state
VARIABLES
  kind,        \* which harvest runs: "employees" or "jobs"
  pc,          \* position in the loop
  scraped,     \* scraped_employees / scraped_jobs
  seen,        \* scraped_employee_urls / scraped_job_ids
  last_count,  \* last_count of scrape_employees
  list_len,    \* len(employee_data_list) / len(job_data_list) of this round
  idx,         \* cards of this round's list already handled by the for loop
  control,     \* the page's advance control
  rounds,      \* history: extractions performed so far (saturating)
  prev_len,    \* history: len(scraped) when the current round began
  productive,  \* history: rounds that accepted at least one record
  revealed,    \* history: keys of the acceptable cards extracted so far
  rejected,    \* history: keys turned down and not accepted since
  trail,       \* history: what happened to each card of this round, in order
  exit_by      \* history: how the harvest ended

hvars == <<kind, pc, scraped, seen, last_count, list_len, idx, control,
           rounds, prev_len, productive, revealed, rejected, trail, exit_by>>

\* robust_navigate
VARIABLES
  npc,         \* position in robust_navigate
  attempt,     \* the loop variable `attempt` (0-based)
  err,         \* the exception in flight, "none" when there is none
  log          \* history: sleeps, page loads and readiness waits, in order

nvars == <<npc, attempt, err, log>>

\* LinkedInSession
VARIABLES
  auth_mode,        \* how the session was constructed
  state_file,       \* whether the file at _storage_state_path exists
  browser_session,  \* self._browser_session
  context,          \* self._context
  page,             \* self._page
  authenticated,    \* self._authenticated
  state_loaded,     \* whether storage_state went into the context arguments
  browsers,         \* browsers started and not stopped
  last              \* history: the last call on the session and how it ended

svars == <<auth_mode, state_file, browser_session, context, page,
           authenticated, state_loaded, browsers, last>>

\* CompanyScraper.scrape_profile
VARIABLES
  cpc,               \* position in scrape_profile
  get_employees,     \* argument get_employees
  employee_keyword,  \* argument employee_keyword ("None" stands for None)
  employees_only,    \* argument employees_only
  calls,             \* history: robust_navigate / scrape_employees calls made
  cerr               \* the exception that left scrape_profile, or "none"

cvars == <<cpc, get_employees, employee_keyword, employees_only, calls, cerr>>

\* Two runs of scrape_employees, each in its own process on its own page
VARIABLES
  p_pc,       \* per run: "running" or "done"
  p_scraped,  \* per run: its scraped_employees
  p_seen,     \* per run: its scraped_employee_urls
  p_fed,      \* history, per run: the cards its page handed over, in order
  p_order     \* history: which run took each step

pvars == <<p_pc, p_scraped, p_seen, p_fed, p_order>>

\* resilient_click
VARIABLES
  kpc,        \* position in resilient_click
  k_timeout,  \* argument timeout (ms)
  k_now,      \* time.time() * 1000 - start_time
  k_err,      \* the exception that left resilient_click, or "none"
  k_log       \* history: the click attempts, how and when each ended

kvars == <<kpc, k_timeout, k_now, k_err, k_log>>

\* scrape_connections
VARIABLES
  qpc,            \* position in scrape_connections
  contacts_list,  \* the caller's list
  q_before,       \* history: contacts_list at the call
  q_cards,        \* len(connection_cards)
  q_idx,          \* cards already handled by the for loop
  q_trail         \* history: what happened to each card, in order

qvars == <<qpc, contacts_list, q_before, q_cards, q_idx, q_trail>>

vars == <<hvars, nvars, svars, cvars, pvars, kvars, qvars>>

Controls ==
  {[forever |-> TRUE, left |-> 0]} \cup [forever : {FALSE}, left : 0..MaxPages]

HarvestInit ==
  /\ kind \in {"employees", "jobs"}
  /\ pc = "start"
  /\ scraped = <<>>
  /\ seen = {}
  /\ last_count = 0
  /\ list_len = 0
  /\ idx = 0
  /\ control \in Controls
  /\ rounds = 0
  /\ prev_len = 0
  /\ productive = 0
  /\ revealed = {}
  /\ rejected = {}
  /\ trail = <<>>
  /\ exit_by = "none"

\* --------------------------------------------------------------- actions
\* The call: JobScraper.search first loads the jobs page, outside every try;
\* scrape_employees goes to the filter step only when it has a keyword.
Begin ==
  /\ pc = "start"
  /\ IF kind = "jobs"
       THEN \E loaded \in BOOLEAN :
              /\ pc' = IF loaded THEN "filter" ELSE "raised"
              /\ exit_by' = IF loaded THEN exit_by ELSE "goto_error"
       ELSE \E keyword \in {"None", "python"} :
              /\ pc' = IF keyword = "None" THEN "container" ELSE "filter"
              /\ exit_by' = exit_by
  /\ UNCHANGED <<kind, scraped, seen, last_count, list_len, idx, control,
                 rounds, prev_len, productive, revealed, rejected, trail>>
  /\ UNCHANGED <<nvars, svars, cvars, pvars, kvars, qvars>>

\* The query/filter step (get_employees.py:30-44, get_job.py:49-139).
FilterStep ==
  /\ pc = "filter"
  /\ \E outcome \in {"ok", "timeout", "error"} :
       /\ pc' = AfterFilter(kind, outcome)
       /\ exit_by' = IF outcome = "ok" THEN exit_by
                     ELSE IF outcome = "timeout" THEN "filter_timeout"
                     ELSE "filter_error"
  /\ UNCHANGED <<kind, scraped, seen, last_count, list_len, idx, control,
                 rounds, prev_len, productive, revealed, rejected, trail>>
  /\ UNCHANGED <<nvars, svars, cvars, pvars, kvars, qvars>>

\* The wait for the list container (get_employees.py:46-52, get_job.py:141-147).
WaitContainer ==
  /\ pc = "container"
  /\ \E outcome \in {"ok", "timeout", "error"} :
       /\ pc' = AfterContainer(outcome)
       /\ exit_by' = IF outcome = "ok" THEN exit_by
                     ELSE IF outcome = "timeout" THEN "no_container"
                     ELSE "container_error"
  /\ UNCHANGED <<kind, scraped, seen, last_count, list_len, idx, control,
                 rounds, prev_len, productive, revealed, rejected, trail>>
  /\ UNCHANGED <<nvars, svars, cvars, pvars, kvars, qvars>>

\* Mutation of RoundStart: the two lists are created inside the loop.
RoundStartResets ==
  /\ pc = "loop"
  /\ pc' = "evaluate"
  /\ scraped' = <<>>
  /\ seen' = {}
  /\ last_count' = 0
  /\ prev_len' = 0
  /\ UNCHANGED <<kind, list_len, idx, control, rounds,
                 productive, revealed, rejected, trail, exit_by>>
  /\ UNCHANGED <<nvars, svars, cvars, pvars, kvars, qvars>>

\* Top of the loop: remember the count (employees only), scroll to bottom.
RoundStart ==
  /\ pc = "loop"
  /\ pc' = "evaluate"
  /\ last_count' = IF kind = "employees" THEN Len(scraped) ELSE last_count
  /\ prev_len' = Len(scraped)
  /\ UNCHANGED <<kind, scraped, seen, list_len, idx, control, rounds,
                 productive, revealed, rejected, trail, exit_by>>
  /\ UNCHANGED <<nvars, svars, cvars, pvars, kvars, qvars>>

\* The scroll (page.evaluate / scroll_to_bottom) raises: nothing catches it.
ScrollRaises ==
  /\ pc = "loop"
  /\ pc' = "raised"
  /\ exit_by' = "raised"
  /\ last_count' = IF kind = "employees" THEN Len(scraped) ELSE last_count
  /\ prev_len' = Len(scraped)
  /\ UNCHANGED <<kind, scraped, seen, list_len, idx, control, rounds,
                 productive, revealed, rejected, trail>>
  /\ UNCHANGED <<nvars, svars, cvars, pvars, kvars, qvars>>

\* page.evaluate(...) returns this round's list of cards.
Extract ==
  /\ pc = "evaluate"
  /\ \E n \in 0..MaxCards : list_len' = n
  /\ idx' = 0
  /\ trail' = <<>>
  /\ rounds' = Min(rounds + 1, MaxRounds)
  /\ pc' = "items"
  /\ UNCHANGED <<kind, scraped, seen, last_count, control, prev_len,
                 productive, revealed, rejected, exit_by>>
  /\ UNCHANGED <<nvars, svars, cvars, pvars, kvars, qvars>>

\* page.evaluate(...) raises (context destroyed, null href in the page
\* script, timeout): nothing catches it.
ExtractRaises ==
  /\ pc = "evaluate"
  /\ pc' = "raised"
  /\ exit_by' = "raised"
  /\ UNCHANGED <<kind, scraped, seen, last_count, list_len, idx, control,
                 rounds, prev_len, productive, revealed, rejected, trail>>
  /\ UNCHANGED <<nvars, svars, cvars, pvars, kvars, qvars>>

\* One iteration of `for data in employee_data_list`.
EmployeeItem ==
  /\ pc = "items" /\ kind = "employees" /\ idx < list_len
  /\ \E d \in EmployeeData :
       LET r == EmployeeItemStep(d, scraped, seen) IN
         /\ scraped' = r.scraped
         /\ seen' = r.seen
         /\ trail' = Append(trail, Tag(r.fate, d.url, Employee(d), scraped, rejected))
         /\ idx' = NextIndex(r.fate, idx, list_len)
         /\ revealed' = IF AcceptableEmployee(d)
                          THEN revealed \cup {d.url} ELSE revealed
         /\ rejected' = IF r.fate \in {"filtered", "failed"} /\ HttpUrlValid(d.url)
                          THEN rejected \cup {d.url} ELSE rejected \ r.seen
  /\ UNCHANGED <<kind, pc, last_count, list_len, control, rounds, prev_len,
                 productive, exit_by>>
  /\ UNCHANGED <<nvars, svars, cvars, pvars, kvars, qvars>>

\* One iteration of `for data in job_data_list`.
JobItem ==
  /\ pc = "items" /\ kind = "jobs" /\ idx < list_len
  /\ \E d \in JobData :
       LET r == JobItemStep(d, scraped, seen) IN
         /\ scraped' = r.scraped
         /\ seen' = r.seen
         /\ trail' = Append(trail, Tag(r.fate, JobId(d.url), Job(d), scraped, rejected))
         /\ idx' = NextIndex(r.fate, idx, list_len)
         /\ revealed' = IF AcceptableJob(d)
                          THEN revealed \cup {JobId(d.url)} ELSE revealed
         /\ rejected' = IF r.fate = "failed" /\ d.url # NullHref
                          THEN rejected \cup {JobId(d.url)} ELSE rejected \ r.seen
  /\ UNCHANGED <<kind, pc, last_count, list_len, control, rounds, prev_len,
                 productive, exit_by>>
  /\ UNCHANGED <<nvars, svars, cvars, pvars, kvars, qvars>>

\* The for loop has run through the list.
EndItems ==
  /\ pc = "items" /\ idx >= list_len
  /\ pc' = IF kind = "employees" THEN "test" ELSE "advance"
  /\ productive' = IF Len(scraped) > prev_len THEN productive + 1 ELSE productive
  /\ UNCHANGED <<kind, scraped, seen, last_count, list_len, idx, control,
                 rounds, prev_len, revealed, rejected, trail, exit_by>>
  /\ UNCHANGED <<nvars, svars, cvars, pvars, kvars, qvars>>

\* scrape_employees only: stop when the round added nothing.
TerminationTest ==
  /\ pc = "test"
  /\ IF Converged(Len(scraped), last_count)
       THEN pc' = "done" /\ exit_by' = "converged"
       ELSE pc' = "advance" /\ exit_by' = exit_by
  /\ UNCHANGED <<kind, scraped, seen, last_count, list_len, idx, control,
                 rounds, prev_len, productive, revealed, rejected, trail>>
  /\ UNCHANGED <<nvars, svars, cvars, pvars, kvars, qvars>>

\* The try block around the show-more / next-page control.
Advance ==
  /\ pc = "advance"
  /\ \E outcome \in {"clicked", "hidden", "error"} :
       /\ outcome = "clicked" => (control.forever \/ control.left > 0)
       /\ outcome = "hidden" => (~control.forever /\ control.left = 0)
       /\ outcome = "error" => ~control.forever
       /\ pc' = AfterAdvance(outcome)
       /\ exit_by' = IF AfterAdvance(outcome) = "loop" THEN exit_by ELSE outcome
       /\ control' = IF outcome = "clicked" /\ ~control.forever
                       THEN [control EXCEPT !.left = @ - 1] ELSE control
  /\ UNCHANGED <<kind, scraped, seen, last_count, list_len, idx, rounds,
                 prev_len, productive, revealed, rejected, trail>>
  /\ UNCHANGED <<nvars, svars, cvars, pvars, kvars, qvars>>

Next ==
  \/ Begin
  \/ FilterStep
  \/ WaitContainer
  \/ RoundStart
  \/ ScrollRaises
  \/ Extract
  \/ ExtractRaises
  \/ EmployeeItem
  \/ JobItem
  \/ EndItems
  \/ TerminationTest
  \/ Advance

\* robust_navigate not called.
NavIdle ==
  /\ npc = "idle"
  /\ attempt = 0
  /\ err = "none"
  /\ log = <<>>

\* A session constructed from a cookie and not entered.
SessIdle ==
  /\ auth_mode = "cookie"
  /\ state_file = FALSE
  /\ browser_session = "None"
  /\ context = "None"
  /\ page = "None"
  /\ authenticated = FALSE
  /\ state_loaded = FALSE
  /\ browsers = 0
  /\ last = <<"none", "none">>

\* scrape_profile not called.
CompanyIdle ==
  /\ cpc = "idle"
  /\ get_employees = FALSE
  /\ employee_keyword = "None"
  /\ employees_only = FALSE
  /\ calls = <<>>
  /\ cerr = "none"

Runs == {1, 2}

\* No second process: both runs have returned with nothing.
PairIdle ==
  /\ p_pc = [h \in Runs |-> "done"]
  /\ p_scraped = [h \in Runs |-> <<>>]
  /\ p_seen = [h \in Runs |-> {}]
  /\ p_fed = [h \in Runs |-> <<>>]
  /\ p_order = <<>>

\* resilient_click not called.
ClickIdle ==
  /\ kpc = "idle"
  /\ k_timeout = 10000
  /\ k_now = 0
  /\ k_err = "none"
  /\ k_log = <<>>

\* scrape_connections not called.
ConnIdle ==
  /\ qpc = "idle"
  /\ contacts_list = <<>>
  /\ q_before = <<>>
  /\ q_cards = 0
  /\ q_idx = 0
  /\ q_trail = <<>>

\* The parts outside the harvests, the navigation and the session at rest.
RestIdle == CompanyIdle /\ PairIdle /\ ClickIdle /\ ConnIdle

Init == HarvestInit /\ NavIdle /\ SessIdle /\ RestIdle

Spec == Init /\ [][Next]_vars

\* The harvest is a sequential program: while it can take a step it does.
FairSpec == Spec /\ WF_vars(Next)

Terminated == pc \in {"done", "raised"}

TypeOK ==
  /\ kind \in {"employees", "jobs"}
  /\ pc \in {"start", "filter", "container", "loop", "evaluate", "items",
            "test", "advance", "done", "raised"}
  /\ seen = KeysOf(scraped)
  /\ last_count \in 0..Len(scraped)
  /\ list_len \in 0..MaxCards
  /\ idx \in 0..list_len
  /\ control \in Controls
  /\ rounds \in 0..MaxRounds
  /\ prev_len \in 0..Len(scraped)
  /\ productive \in 0..rounds
  /\ rejected \cap seen = {}
  /\ trail \in Seq({"accepted", "accepted_retry", "duplicate",
                    "duplicate_changed", "filtered", "failed"})
  /\ Len(trail) = idx
  /\ exit_by \in {"none", "converged", "hidden", "error", "raised",
                 "goto_error", "filter_timeout", "filter_error",
                 "no_container", "container_error"}

\* ======================================================= robust_navigate
\* scrapers/utils.py:219-259.  Times are in seconds.
\* Mutation of max_retries: one attempt more.
max_retries_more == 5 + 1

max_retries == 5
base_wait_time == 10

\* random.uniform(0, 5): the two ends and a value between them.
Jitters == {0, 2, 5}

\* What page.goto and page.wait_for_selector can raise:
\*   http_response_code_failure   playwright Error whose text contains
\*                                "net::ERR_HTTP_RESPONSE_CODE_FAILURE"
\*   timeout                      PlaywrightTimeoutError (a playwright Error)
\*   invalid_url                  playwright Error "Cannot navigate to invalid URL"
\*   foreign                      an exception that is not a playwright Error
GotoOutcomes ==
  {"ok", "http_response_code_failure", "timeout", "invalid_url", "foreign"}
ReadyOutcomes == {"ok", "timeout"}

\* except Error as e
IsPlaywrightError(e) ==
  e \in {"http_response_code_failure", "timeout", "invalid_url"}

\* "net::ERR_HTTP_RESPONSE_CODE_FAILURE" in str(e)
IsRateLimit(e) == e = "http_response_code_failure"

RECURSIVE Pow(_, _)
Pow(b, e) == IF e = 0 THEN 1 ELSE b * Pow(b, e - 1)

\* Mutations of BackoffTime: the exponent is the 0-based attempt; the
\* rate-limit wait does not grow; every failure waits exponentially.
BackoffTimeZeroBased(e, a, jitter) ==
  IF IsRateLimit(e) THEN Pow(base_wait_time, a) + jitter ELSE base_wait_time

BackoffTimeFlat(e, a, jitter) ==
  IF IsRateLimit(e) THEN base_wait_time + jitter ELSE base_wait_time

BackoffTimeAlwaysExponential(e, a, jitter) ==
  Pow(base_wait_time, a + 1) + (IF IsRateLimit(e) THEN jitter ELSE 0)

\* The sleep of the except block for the failure e of attempt a (0-based).
BackoffTime(e, a, jitter) ==
  IF IsRateLimit(e)
    THEN Pow(base_wait_time, a + 1) + jitter
    ELSE base_wait_time

\* Mutation of AfterFailure: the last retry is given up.
AfterFailureGivesUpEarly(e, a) ==
  IF ~IsPlaywrightError(e) THEN "raise"
  ELSE IF a < max_retries - 2 THEN "sleep" ELSE "raise"

\* The except block: what is not a playwright Error is not caught; both
\* branches sleep while attempt < max_retries - 1 and re-raise otherwise.
AfterFailure(e, a) ==
  IF ~IsPlaywrightError(e) THEN "raise"
  ELSE IF a < max_retries - 1 THEN "sleep" ELSE "raise"

\* Mutation of NextPc: a retry takes up the readiness wait again, without
\* sleeping and loading the page first.
NextPcRetriesWaitOnly(a) == IF a + 1 < max_retries THEN "ready" ELSE "failed"

\* for attempt in range(max_retries): the next iteration, or the raise
\* behind the loop (line 257).
NextPc(a) == IF a + 1 < max_retries THEN "prewait" ELSE "failed"

GotoPc(outcome) == IF outcome = "ok" THEN "ready" ELSE "except"

\* Mutation of ReadyPc: a readiness wait that raised counts as ready.
ReadyPcIgnoresFailure(outcome) == "postwait"

ReadyPc(outcome) == IF outcome = "ok" THEN "postwait" ELSE "except"

\* Mutation of Raised: the generic PlaywrightTimeoutError of line 257 is
\* raised in place of the exception that was caught.
RaisedGeneric(e) == "timeout"

\* `raise e` (lines 250, 255); an exception that is not caught passes
\* through as it is.
Raised(e) == e

\* One entry of the history.
Event(ev, res, dur) == [ev |-> ev, res |-> res, dur |-> dur]

RECURSIVE Select(_, _)
Select(sq, evs) ==
  IF sq = <<>> THEN <<>>
  ELSE IF Head(sq).ev \in evs
    THEN <<Head(sq)>> \o Select(Tail(sq), evs)
    ELSE Select(Tail(sq), evs)

Loads(lg) == Select(lg, {"goto"})
Backoffs(lg) == Select(lg, {"backoff"})
\* The page loads and readiness waits that raised, in order.
Failures(lg) ==
  SelectSeq(Select(lg, {"goto", "ready"}), LAMBDA x : x.res # "ok")

\* Mutation of AttemptIndex: the rate-limit failures so far are counted
\* (0-based), not the attempts.
AttemptIndexRateLimitedOnly(a, lg) ==
  Len(SelectSeq(Failures(lg), LAMBDA x : IsRateLimit(x.res))) - 1

\* The index that the backoff computation uses: the loop variable `attempt`.
AttemptIndex(a, lg) == a

\* The call of robust_navigate.
NavStart ==
  /\ npc = "idle"
  /\ npc' = "prewait"
  /\ attempt' = 0
  /\ UNCHANGED <<err, log>>
  /\ UNCHANGED <<hvars, svars, cvars, pvars, kvars, qvars>>

\* time.sleep(random.uniform(4.0, 10.0))
PreWait ==
  /\ npc = "prewait"
  /\ log' = Append(log, Event("prewait", "ok", 0))
  /\ npc' = "goto"
  /\ UNCHANGED <<attempt, err>>
  /\ UNCHANGED <<hvars, svars, cvars, pvars, kvars, qvars>>

\* page.goto(url, wait_until="domcontentloaded")
Goto ==
  /\ npc = "goto"
  /\ \E outcome \in GotoOutcomes :
       /\ log' = Append(log, Event("goto", outcome, 0))
       /\ npc' = GotoPc(outcome)
       /\ err' = IF outcome = "ok" THEN err ELSE outcome
  /\ UNCHANGED attempt
  /\ UNCHANGED <<hvars, svars, cvars, pvars, kvars, qvars>>

\* page.wait_for_selector(wait_for_selector, state="visible", timeout=15000)
Ready ==
  /\ npc = "ready"
  /\ \E outcome \in ReadyOutcomes :
       /\ log' = Append(log, Event("ready", outcome, 0))
       /\ npc' = ReadyPc(outcome)
       /\ err' = IF outcome = "ok" THEN err ELSE outcome
  /\ UNCHANGED attempt
  /\ UNCHANGED <<hvars, svars, cvars, pvars, kvars, qvars>>

\* time.sleep(random.uniform(3.0, 9.0)); return
PostWait ==
  /\ npc = "postwait"
  /\ log' = Append(log, Event("postwait", "ok", 0))
  /\ npc' = "success"
  /\ UNCHANGED <<attempt, err>>
  /\ UNCHANGED <<hvars, svars, cvars, pvars, kvars, qvars>>

\* The except block and the step of the for loop behind it.
Except ==
  /\ npc = "except"
  /\ IF AfterFailure(err, attempt) = "sleep"
       THEN \E jitter \in Jitters :
              /\ log' = Append(log, Event("backoff", err,
                                          BackoffTime(err, AttemptIndex(attempt, log),
                                                      jitter)))
              /\ npc' = NextPc(attempt)
              /\ attempt' = attempt + 1
              /\ err' = IF NextPc(attempt) = "failed" THEN "exhausted" ELSE "none"
       ELSE /\ npc' = "failed"
            /\ err' = Raised(err)
            /\ UNCHANGED <<attempt, log>>
  /\ UNCHANGED <<hvars, svars, cvars, pvars, kvars, qvars>>

NavNext ==
  \/ NavStart
  \/ PreWait
  \/ Goto
  \/ Ready
  \/ PostWait
  \/ Except

\* No harvest running.
HarvestIdle ==
  /\ kind = "employees"
  /\ pc = "done"
  /\ scraped = <<>>
  /\ seen = {}
  /\ last_count = 0
  /\ list_len = 0
  /\ idx = 0
  /\ control = [forever |-> FALSE, left |-> 0]
  /\ rounds = 0
  /\ prev_len = 0
  /\ productive = 0
  /\ revealed = {}
  /\ rejected = {}
  /\ trail = <<>>
  /\ exit_by = "none"

NavInit == NavIdle /\ HarvestIdle /\ SessIdle /\ RestIdle

NavSpec == NavInit /\ [][NavNext]_vars

\* robust_navigate is sequential code and every wait in it is bounded.
FairNavSpec == NavSpec /\ WF_vars(NavNext)

NavTypeOK ==
  /\ npc \in {"idle", "prewait", "goto", "ready", "postwait", "except",
              "success", "failed"}
  /\ attempt \in 0..max_retries
  /\ err \in GotoOutcomes \cup {"none", "exhausted"}
  /\ Len(Loads(log)) <= max_retries

\* ======================================================== LinkedInSession
\* session.py and browser/context.py.
AuthModes == {"password", "cookie", "storage_state"}

\* The scraping calls and save_storage_state.
Ops == {"get_profile", "get_company", "get_job", "search_jobs",
        "save_storage_state"}

\* What BrowserContextManager defines (browser/context.py:9-52).
BrowserContextManagerMethods == {"__init__", "__enter__", "__exit__"}

\* is_authenticated(): self._authenticated and self._page is not None
IsAuthenticated(a, pg) == a /\ pg # "None"

\* Mutation of CallResult: only the page is looked at.
CallResultPageOnly(op, a, ctx, pg) ==
  IF pg # "None" THEN "started" ELSE "RuntimeError"

\* get_profile, get_company, get_job, search_jobs: _ensure_authenticated()
\* and then the scraper; save_storage_state: the context test first.
CallResult(op, a, ctx, pg) ==
  IF op = "save_storage_state" /\ ctx = "None" THEN "RuntimeError"
  ELSE IF ~IsAuthenticated(a, pg) THEN "RuntimeError"
  ELSE "started"

\* close(): self._browser_session.close() is looked up on an object that
\* has no such method whenever there is a browser session.
CloseRaises(bs) ==
  bs # "None" /\ "close" \notin BrowserContextManagerMethods

\* __enter__ of the session, as a whole.  The except block calls close(),
\* whose exception replaces the original one.
\*   playwright_failed  sync_playwright() could not start
\*   launch_failed      chromium.launch / new_context raised
\*   login_failed       auth.login / context.new_page raised
Enter ==
  /\ browsers < MaxBrowsers
  /\ \E outcome \in {"ok", "playwright_failed", "launch_failed", "login_failed"} :
       LET loaded == auth_mode = "storage_state" /\ state_file
           started == outcome # "playwright_failed"
           got_context == outcome \in {"ok", "login_failed"}
       IN
         /\ browser_session' = "BrowserContextManager"
         /\ state_loaded' = loaded
         /\ browsers' = IF started THEN browsers + 1 ELSE browsers
         /\ context' = IF got_context THEN "BrowserContext" ELSE context
         /\ page' = IF outcome = "ok" THEN "Page" ELSE page
         /\ authenticated' = (outcome = "ok")
         /\ last' = IF outcome = "ok" THEN <<"enter", "ok">>
                    ELSE IF CloseRaises("BrowserContextManager")
                      THEN <<"enter", "AttributeError">>
                      ELSE <<"enter", outcome>>
  /\ UNCHANGED <<auth_mode, state_file>>
  /\ UNCHANGED <<hvars, nvars, cvars, pvars, kvars, qvars>>

\* Mutation of Close: the browser session and the context are dropped, the
\* page and the flag are left as they are.
ClosePartial ==
  /\ \E via \in {"close", "exit"} :
       /\ browser_session' = "None"
       /\ context' = "None"
       /\ last' = <<via, "ok">>
  /\ UNCHANGED <<auth_mode, state_file, state_loaded, page, authenticated,
                 browsers>>
  /\ UNCHANGED <<hvars, nvars, cvars, pvars, kvars, qvars>>

\* close(), and __exit__, which only calls close().
Close ==
  /\ \E via \in {"close", "exit"} :
       IF CloseRaises(browser_session)
         THEN /\ authenticated' = FALSE
              /\ last' = <<via, "AttributeError">>
              /\ UNCHANGED <<browser_session, context, page, browsers>>
         ELSE /\ authenticated' = FALSE
              /\ browser_session' = "None"
              /\ context' = "None"
              /\ page' = "None"
              /\ browsers' = IF browser_session # "None" THEN 0 ELSE browsers
              /\ last' = <<via, "ok">>
  /\ UNCHANGED <<auth_mode, state_file, state_loaded>>
  /\ UNCHANGED <<hvars, nvars, cvars, pvars, kvars, qvars>>

\* One of the scraping calls or save_storage_state.
Call ==
  /\ \E op \in Ops : last' = <<op, CallResult(op, authenticated, context, page)>>
  /\ UNCHANGED <<auth_mode, state_file, browser_session, context, page,
                 authenticated, state_loaded, browsers>>
  /\ UNCHANGED <<hvars, nvars, cvars, pvars, kvars, qvars>>

SessNext ==
  \/ Enter
  \/ Close
  \/ Call

\* The session after __init__, made by one of the three class methods.
SessInit ==
  /\ auth_mode \in AuthModes
  /\ state_file \in (IF auth_mode = "storage_state" THEN BOOLEAN ELSE {FALSE})
  /\ browser_session = "None"
  /\ context = "None"
  /\ page = "None"
  /\ authenticated = FALSE
  /\ state_loaded = FALSE
  /\ browsers = 0
  /\ last = <<"none", "none">>

SessStart == SessInit /\ HarvestIdle /\ NavIdle /\ RestIdle

SessSpec == SessStart /\ [][SessNext]_vars

SessTypeOK ==
  /\ auth_mode \in AuthModes
  /\ state_file \in BOOLEAN
  /\ browser_session \in {"None", "BrowserContextManager"}
  /\ context \in {"None", "BrowserContext"}
  /\ page \in {"None", "Page"}
  /\ authenticated \in BOOLEAN
  /\ state_loaded \in BOOLEAN
  /\ browsers \in 0..MaxBrowsers

\* ============================================ CompanyScraper.scrape_profile
\* scrapers/company/get_company.py:41-116.  robust_navigate is taken by its
\* result: it returns ("ok") or raises the failure of its last attempt.
Keywords == {"None", "", "CEO"}

\* Python truth value of employee_keyword: None and "" are false.
Truthy(kw) == kw \notin {"None", ""}

\* if get_employees or employee_keyword:
WantsEmployees(ge, kw) == ge \/ Truthy(kw)

\* Mutation of AfterPeopleNav: the harvest runs also when the navigation
\* to the people view failed.
AfterPeopleNavIgnoresFailure(res) == "harvest"

\* robust_navigate(people_url, ...) stands outside every try: its
\* exception leaves scrape_profile.
AfterPeopleNav(res) == IF res = "ok" THEN "harvest" ELSE "raised"

\* One entry of the history.
CallEvent(op, arg, res) == [op |-> op, arg |-> arg, res |-> res]

\* The call of scrape_profile.
CompanyCall ==
  /\ cpc = "idle"
  /\ cpc' = "main_nav"
  /\ UNCHANGED <<get_employees, employee_keyword, employees_only, calls, cerr>>
  /\ UNCHANGED <<hvars, nvars, svars, pvars, kvars, qvars>>

\* robust_navigate(self.page, url, selectors.COMPANY_NAME) and the
\* computation of base_url.
MainNav ==
  /\ cpc = "main_nav"
  /\ \E res \in GotoOutcomes :
       /\ calls' = Append(calls, CallEvent("robust_navigate", "main", res))
       /\ cpc' = IF res # "ok" THEN "raised"
                 ELSE IF employees_only THEN "branch" ELSE "basic"
       /\ cerr' = IF res = "ok" THEN cerr ELSE res
  /\ UNCHANGED <<get_employees, employee_keyword, employees_only>>
  /\ UNCHANGED <<hvars, nvars, svars, pvars, kvars, qvars>>

\* _scrape_basic_info() (which swallows its failures) and page.mouse.move.
BasicInfo ==
  /\ cpc = "basic"
  /\ \E res \in {"ok", "mouse_error"} :
       /\ cpc' = IF res = "ok" THEN "about_nav" ELSE "raised"
       /\ cerr' = IF res = "ok" THEN cerr ELSE res
  /\ UNCHANGED <<get_employees, employee_keyword, employees_only, calls>>
  /\ UNCHANGED <<hvars, nvars, svars, pvars, kvars, qvars>>

\* robust_navigate(self.page, about_url, ...)
AboutNav ==
  /\ cpc = "about_nav"
  /\ \E res \in GotoOutcomes :
       /\ calls' = Append(calls, CallEvent("robust_navigate", "about", res))
       /\ cpc' = IF res = "ok" THEN "about" ELSE "raised"
       /\ cerr' = IF res = "ok" THEN cerr ELSE res
  /\ UNCHANGED <<get_employees, employee_keyword, employees_only>>
  /\ UNCHANGED <<hvars, nvars, svars, pvars, kvars, qvars>>

\* page.wait_for_timeout(2000) and _scrape_about_info().
AboutInfo ==
  /\ cpc = "about"
  /\ \E res \in {"ok", "wait_error"} :
       /\ cpc' = IF res = "ok" THEN "branch" ELSE "raised"
       /\ cerr' = IF res = "ok" THEN cerr ELSE res
  /\ UNCHANGED <<get_employees, employee_keyword, employees_only, calls>>
  /\ UNCHANGED <<hvars, nvars, svars, pvars, kvars, qvars>>

\* employees_data = []; if get_employees or employee_keyword:
Branch ==
  /\ cpc = "branch"
  /\ cpc' = IF WantsEmployees(get_employees, employee_keyword)
              THEN "people_nav" ELSE "build"
  /\ UNCHANGED <<get_employees, employee_keyword, employees_only, calls, cerr>>
  /\ UNCHANGED <<hvars, nvars, svars, pvars, kvars, qvars>>

\* robust_navigate(self.page, people_url, COMPANY_EMPLOYEE_LIST_CONTAINER)
PeopleNav ==
  /\ cpc = "people_nav"
  /\ \E res \in GotoOutcomes :
       /\ calls' = Append(calls, CallEvent("robust_navigate", "people", res))
       /\ cpc' = AfterPeopleNav(res)
       /\ cerr' = IF res = "ok" THEN cerr ELSE res
  /\ UNCHANGED <<get_employees, employee_keyword, employees_only>>
  /\ UNCHANGED <<hvars, nvars, svars, pvars, kvars, qvars>>

\* employees_data = scrape_employees(self.page, keyword=employee_keyword);
\* the harvest returns its list or lets an exception through.
StartHarvest ==
  /\ cpc = "harvest"
  /\ \E res \in {"returned", "raised"} :
       /\ calls' = Append(calls,
                          CallEvent("scrape_employees", employee_keyword, res))
       /\ cpc' = IF res = "returned" THEN "build" ELSE "raised"
       /\ cerr' = IF res = "returned" THEN cerr ELSE "harvest_error"
  /\ UNCHANGED <<get_employees, employee_keyword, employees_only>>
  /\ UNCHANGED <<hvars, nvars, svars, pvars, kvars, qvars>>

\* Company(linkedin_url=HttpUrl(base_url), **full_data); return company
Build ==
  /\ cpc = "build"
  /\ \E res \in {"ok", "validation_error"} :
       /\ cpc' = IF res = "ok" THEN "returned" ELSE "raised"
       /\ cerr' = IF res = "ok" THEN cerr ELSE res
  /\ UNCHANGED <<get_employees, employee_keyword, employees_only, calls>>
  /\ UNCHANGED <<hvars, nvars, svars, pvars, kvars, qvars>>

CompanyNext ==
  \/ CompanyCall
  \/ MainNav
  \/ BasicInfo
  \/ AboutNav
  \/ AboutInfo
  \/ Branch
  \/ PeopleNav
  \/ StartHarvest
  \/ Build

\* Any arguments the caller may pass.
CompanyStart ==
  /\ cpc = "idle"
  /\ get_employees \in BOOLEAN
  /\ employee_keyword \in Keywords
  /\ employees_only \in BOOLEAN
  /\ calls = <<>>
  /\ cerr = "none"

CompanyInit ==
  CompanyStart /\ HarvestIdle /\ NavIdle /\ SessIdle /\ PairIdle /\ ClickIdle /\ ConnIdle

CompanySpec == CompanyInit /\ [][CompanyNext]_vars

CompanyTypeOK ==
  /\ cpc \in {"idle", "main_nav", "basic", "about_nav", "about", "branch",
              "people_nav", "harvest", "build", "returned", "raised"}
  /\ employee_keyword \in Keywords
  /\ Len(calls) <= 4
  /\ (cerr # "none") = (cpc = "raised")

\* ================================================== two concurrent harvests
\* Two calls of scrape_employees, each in a worker process of its own with
\* its own session and page (tests/run_scraper.py:131-158).  A run is taken
\* card by card; the steps of the two runs interleave in any order.
PairCards ==
  {d \in EmployeeData :
     d.url.id \in Aliased /\ d.position = "Engineer"
       /\ d.name \in {"Ann", "LinkedIn Member"}}

\* Mutation of SeenOf: one seen set at module level, shared by the runs.
SeenOfShared(h, seens) == UNION {seens[i] : i \in Runs}

\* scraped_employee_urls is a local variable of the call.
SeenOf(h, seens) == seens[h]

\* What one run alone returns for the cards its page hands over.
RECURSIVE Alone(_)
Alone(cards) ==
  IF cards = <<>> THEN [scraped |-> <<>>, seen |-> {}]
  ELSE LET before == Alone(SubSeq(cards, 1, Len(cards) - 1))
           r == EmployeeItemStep(cards[Len(cards)], before.scraped, before.seen)
       IN [scraped |-> r.scraped, seen |-> r.seen]

\* One iteration of the for loop in one of the runs.
PairItem ==
  /\ \E h \in Runs, d \in PairCards :
       /\ p_pc[h] = "running" /\ Len(p_fed[h]) < MaxFed
       /\ LET r == EmployeeItemStep(d, p_scraped[h], SeenOf(h, p_seen)) IN
            /\ p_scraped' = [p_scraped EXCEPT ![h] = r.scraped]
            /\ p_seen' = [p_seen EXCEPT ![h] = r.seen]
       /\ p_fed' = [p_fed EXCEPT ![h] = Append(@, d)]
       /\ p_order' = Append(p_order, h)
  /\ UNCHANGED p_pc
  /\ UNCHANGED <<hvars, nvars, svars, cvars, kvars, qvars>>

\* return scraped_employees in one of the runs.
PairReturn ==
  /\ \E h \in Runs :
       /\ p_pc[h] = "running"
       /\ p_pc' = [p_pc EXCEPT ![h] = "done"]
  /\ UNCHANGED <<p_scraped, p_seen, p_fed, p_order>>
  /\ UNCHANGED <<hvars, nvars, svars, cvars, kvars, qvars>>

PairNext ==
  \/ PairItem
  \/ PairReturn

\* Both runs called, their lists empty.
PairStart ==
  /\ p_pc = [h \in Runs |-> "running"]
  /\ p_scraped = [h \in Runs |-> <<>>]
  /\ p_seen = [h \in Runs |-> {}]
  /\ p_fed = [h \in Runs |-> <<>>]
  /\ p_order = <<>>

PairInit ==
  PairStart /\ HarvestIdle /\ NavIdle /\ SessIdle /\ CompanyIdle /\ ClickIdle /\ ConnIdle

PairSpec == PairInit /\ [][PairNext]_vars

PairTypeOK ==
  /\ p_pc \in [Runs -> {"running", "done"}]
  /\ \A h \in Runs : Len(p_fed[h]) <= MaxFed /\ p_seen[h] = KeysOf(p_scraped[h])
  /\ Len(p_order) = Len(p_fed[1]) + Len(p_fed[2])

\* ======================================================== resilient_click
\* scrapers/utils.py:262-291.  Times are in milliseconds since start_time.
ClickTimeouts == {0, 2000, 10000}

\* element.click(timeout=2000): a click that goes through takes less than
\* its timeout, a click that times out takes the timeout or a little more.
ClickOutcomes == {"ok", "timeout", "error"}
ClickDurations(outcome) ==
  IF outcome = "timeout" THEN {2000, 2100} ELSE {100, 1900}

\* Mutation of DeadlinePassed: the first click timeout is final.
DeadlinePassedAtOnce(now, start, timeout) == now > start

\* (time.time() * 1000) > (start_time + timeout)
DeadlinePassed(now, start, timeout) == now > start + timeout

\* One entry of the history: how the attempt ended and when.
Attempt(res, at) == [res |-> res, at |-> at]

\* The call: start_time = time.time() * 1000
ClickCall ==
  /\ kpc = "idle"
  /\ kpc' = "click"
  /\ k_now' = 0
  /\ UNCHANGED <<k_timeout, k_err, k_log>>
  /\ UNCHANGED <<hvars, nvars, svars, cvars, pvars, qvars>>

\* page.locator(selector).first ; element.click(timeout=2000).  What is
\* not a PlaywrightTimeoutError is not caught.
Click ==
  /\ kpc = "click"
  /\ \E outcome \in ClickOutcomes :
       \E dur \in ClickDurations(outcome) :
         /\ k_now' = k_now + dur
         /\ k_log' = Append(k_log, Attempt(outcome, k_now + dur))
         /\ kpc' = IF outcome = "ok" THEN "returned"
                   ELSE IF outcome = "timeout" THEN "except" ELSE "raised"
         /\ k_err' = IF outcome = "error" THEN "error" ELSE k_err
  /\ UNCHANGED k_timeout
  /\ UNCHANGED <<hvars, nvars, svars, cvars, pvars, qvars>>

\* except PlaywrightTimeoutError as e: raise e behind the deadline,
\* time.sleep(0.5) and the next iteration before it.
ClickExcept ==
  /\ kpc = "except"
  /\ IF DeadlinePassed(k_now, 0, k_timeout)
       THEN /\ kpc' = "raised"
            /\ k_err' = "timeout"
            /\ k_now' = k_now
       ELSE /\ kpc' = "click"
            /\ k_err' = k_err
            /\ k_now' = k_now + 500
  /\ UNCHANGED <<k_timeout, k_log>>
  /\ UNCHANGED <<hvars, nvars, svars, cvars, pvars, qvars>>

ClickNext ==
  \/ ClickCall
  \/ Click
  \/ ClickExcept

\* Any of the timeouts a caller passes.
ClickStart ==
  /\ kpc = "idle"
  /\ k_timeout \in ClickTimeouts
  /\ k_now = 0
  /\ k_err = "none"
  /\ k_log = <<>>

ClickInit ==
  ClickStart /\ HarvestIdle /\ NavIdle /\ SessIdle /\ CompanyIdle /\ PairIdle /\ ConnIdle

ClickSpec == ClickInit /\ [][ClickNext]_vars

\* resilient_click is sequential code; every click and sleep in it ends.
FairClickSpec == ClickSpec /\ WF_vars(ClickNext)

ClickTypeOK ==
  /\ kpc \in {"idle", "click", "except", "returned", "raised"}
  /\ k_timeout \in ClickTimeouts
  /\ k_now \in 0..(10000 + 2 * 2100 + 500)
  /\ k_err \in {"none", "timeout", "error"}
  /\ \A i \in 1..Len(k_log) : k_log[i].res \in ClickOutcomes

\* ===================================================== scrape_connections
\* scrapers/person/connections.py:11-90.
\* A connection card as _extract_connection_data sees it:
\*   url   "abs"  an absolute http(s) link, "rel" a link HttpUrl rejects,
\*         "none" no visible link or no href (the function returns None)
\*   wellformed  whether Contact(...) accepts the fields
ConnCards ==
  [url : {"abs", "rel", "none"}, name : {"Bo", "Cy"}, wellformed : BOOLEAN]

\* Contact(name=..., occupation=..., url=HttpUrl(connection_data["url"]))
ContactOf(d) == [name |-> d.name, url |-> d.url]

\* What the caller's list may hold at the call.
PriorContacts ==
  {<<>>,
   <<[name |-> "Al", url |-> "abs"]>>,
   <<[name |-> "Bo", url |-> "abs"], [name |-> "Al", url |-> "abs"]>>}

\* The body of `for card in connection_cards` for one card.
ConnItemStep(d, lst) ==
  IF d.url = "none" THEN [list |-> lst, fate |-> "none"]
  ELSE IF d.url = "rel" \/ ~d.wellformed THEN [list |-> lst, fate |-> "failed"]
  ELSE [list |-> Append(lst, ContactOf(d)), fate |-> "appended"]

\* Mutation of ConnNextIndex: a failed card ends the loop.
ConnNextIndexAborts(fate, i, n) == IF fate = "failed" THEN n ELSE i + 1

\* except Exception: continue
ConnNextIndex(fate, i, n) == i + 1

\* The outer handler: except Exception: pass
AfterConnFailure(outcome) == IF outcome = "ok" THEN "go_on" ELSE "done"

\* The call of scrape_connections.
ConnCall ==
  /\ qpc = "idle"
  /\ qpc' = "goto"
  /\ UNCHANGED <<contacts_list, q_before, q_cards, q_idx, q_trail>>
  /\ UNCHANGED <<hvars, nvars, svars, cvars, pvars, kvars>>

\* page.goto(connections_url)
ConnGoto ==
  /\ qpc = "goto"
  /\ \E outcome \in {"ok", "error"} :
       qpc' = IF AfterConnFailure(outcome) = "go_on" THEN "wait" ELSE "done"
  /\ UNCHANGED <<contacts_list, q_before, q_cards, q_idx, q_trail>>
  /\ UNCHANGED <<hvars, nvars, svars, cvars, pvars, kvars>>

\* page.wait_for_timeout(3000)
ConnWait ==
  /\ qpc = "wait"
  /\ \E outcome \in {"ok", "error"} :
       qpc' = IF AfterConnFailure(outcome) = "go_on" THEN "container" ELSE "done"
  /\ UNCHANGED <<contacts_list, q_before, q_cards, q_idx, q_trail>>
  /\ UNCHANGED <<hvars, nvars, svars, cvars, pvars, kvars>>

\* The container: not visible -> return; visible -> the list of its cards;
\* is_visible() or all() raising -> the outer handler.
ConnContainer ==
  /\ qpc = "container"
  /\ \E outcome \in {"ok", "hidden", "error"}, n \in 0..MaxConnCards :
       /\ outcome # "ok" => n = 0
       /\ q_cards' = n
       /\ qpc' = IF outcome = "hidden" THEN "done"
                 ELSE IF AfterConnFailure(outcome) = "go_on" THEN "cards"
                 ELSE "done"
  /\ UNCHANGED <<contacts_list, q_before, q_idx, q_trail>>
  /\ UNCHANGED <<hvars, nvars, svars, cvars, pvars, kvars>>

\* One iteration of `for card in connection_cards`.
ConnCard ==
  /\ qpc = "cards" /\ q_idx < q_cards
  /\ \E d \in ConnCards :
       LET r == ConnItemStep(d, contacts_list) IN
         /\ contacts_list' = r.list
         /\ q_trail' = Append(q_trail, r.fate)
         /\ q_idx' = ConnNextIndex(r.fate, q_idx, q_cards)
  /\ UNCHANGED <<qpc, q_before, q_cards>>
  /\ UNCHANGED <<hvars, nvars, svars, cvars, pvars, kvars>>

\* The for loop has run through the cards; the function returns None.
ConnEnd ==
  /\ qpc = "cards" /\ q_idx >= q_cards
  /\ qpc' = "done"
  /\ UNCHANGED <<contacts_list, q_before, q_cards, q_idx, q_trail>>
  /\ UNCHANGED <<hvars, nvars, svars, cvars, pvars, kvars>>

ConnNext ==
  \/ ConnCall
  \/ ConnGoto
  \/ ConnWait
  \/ ConnContainer
  \/ ConnCard
  \/ ConnEnd

\* The call with any list of the caller.
ConnStart ==
  /\ qpc = "idle"
  /\ contacts_list \in PriorContacts
  /\ q_before = contacts_list
  /\ q_cards = 0
  /\ q_idx = 0
  /\ q_trail = <<>>

ConnInit ==
  ConnStart /\ HarvestIdle /\ NavIdle /\ SessIdle /\ CompanyIdle /\ PairIdle /\ ClickIdle

ConnSpec == ConnInit /\ [][ConnNext]_vars

ConnTypeOK ==
  /\ qpc \in {"idle", "goto", "wait", "container", "cards", "done"}
  /\ q_cards \in 0..MaxConnCards
  /\ q_idx \in 0..q_cards
  /\ q_trail \in Seq({"appended", "none", "failed"})
  /\ Len(contacts_list) <= Len(q_before) + MaxConnCards

\* ================================================================ claims
IsPrefix(a, b) == Len(a) <= Len(b) /\ SubSeq(b, 1, Len(a)) = a

\* C1: at every point of every harvest, no two accepted records have the
\* same dedup key (the extracted profile URL / the job id), also when the
\* key shows up twice in one extraction or again in a later round.
C1_NoDuplicateKeys ==
  \A i, j \in 1..Len(scraped) : i # j => scraped[i].key # scraped[j].key

\* A later round re-extracted a key that is already among the records.
C1_Witness ==
  /\ rounds >= 2
  /\ Len(trail) >= 1 /\ trail[Len(trail)] = "duplicate"
  /\ Len(scraped) >= 2

\* C2: every step leaves the records of before in place and at most appends
\* at the end, so the returned order is the order of first discovery.
C2_AppendOnly == [][IsPrefix(scraped, scraped')]_vars

\* A harvest returned after a second round appended behind the records of
\* the first round, having met one of them again.
C2_Witness ==
  /\ pc = "done" /\ rounds >= 2
  /\ prev_len >= 1 /\ Len(scraped) > prev_len
  /\ \E i \in 1..Len(trail) : trail[i] = "duplicate"

\* C3: in both harvests a round that accepted no new record ends the loop,
\* so the advance block is never entered after such a round.
C3_NoNewRecordEndsLoop == pc = "advance" => Len(scraped) > prev_len

\* C4: with finitely many keys and an advance control that stops being
\* available after finitely many rounds, every harvest terminates.
C4_Terminates == (~control.forever) ~> Terminated

\* A job search clicked through every page the control offered and returned
\* when the next-page button was no longer available.
C4_Witness ==
  /\ kind = "jobs" /\ pc = "done" /\ exit_by = "hidden"
  /\ ~control.forever /\ rounds = MaxPages + 1

\* C5: with finitely many keys every harvest terminates even when the
\* advance control stays visible, enabled and clickable forever.
C5_TerminatesWithControlForever == control.forever ~> Terminated

\* C6: when the control stays available, scrape_employees runs one round
\* more than the rounds that accepted something, ends by the no-new-record
\* test, and returns exactly one record per acceptable key revealed.
C6_ExactRounds ==
  (kind = "employees" /\ pc = "done" /\ rounds >= 1) =>
    /\ control.forever => exit_by = "converged"
    /\ exit_by = "converged" =>
         /\ rounds = productive + 1
         /\ KeysOf(scraped) = revealed
         /\ Len(scraped) = Cardinality(revealed)

\* Scenario A at the size of the model: the control is always there, two
\* rounds accept new profiles, the third reveals nothing new.
C6_Witness ==
  /\ kind = "employees" /\ pc = "done" /\ control.forever
  /\ rounds = 3 /\ productive = 2 /\ Len(scraped) = 3

\* C7: when the advance control reports no more content the harvest stops
\* there and returns the records as they are, those of the last round
\* included.
C7_NoMoreContentStops ==
  [][(pc = "advance" /\ ~control.forever /\ control.left = 0)
       => (pc' = "done" /\ scraped' = scraped)]_vars

\* The harvest returned because the control was gone, right after a round
\* that accepted a record.
C7_Witness ==
  /\ pc = "done" /\ exit_by = "hidden"
  /\ Len(scraped) > prev_len

\* C8: a failure while checking or clicking the advance control ends the
\* harvest normally: it returns the records accepted so far and does not
\* raise.
C8_AdvanceFailureReturns ==
  [][(exit_by # "error" /\ exit_by' = "error")
       => (pc = "advance" /\ pc' = "done" /\ scraped' = scraped)]_vars

\* The click failed after a round that accepted a record, and the harvest
\* returned what it had.
C8_Witness ==
  /\ pc = "done" /\ exit_by = "error"
  /\ Len(scraped) > prev_len /\ prev_len >= 1

\* C9: a card whose construction fails is the only thing lost: the loop
\* moves on to the next card with records and seen set untouched, every
\* card of the list is handled, and at the end of the round every
\* acceptable key that was extracted is among the seen keys.
C9_ItemFailureIsLocal ==
  /\ [](pc \in {"test", "advance", "done"}
          => (idx = list_len /\ revealed \subseteq seen))
  /\ [][(Len(trail') = Len(trail) + 1 /\ trail'[Len(trail')] = "failed")
          => /\ idx' = idx + 1
             /\ scraped' = scraped
             /\ seen' = seen
             /\ pc' = "items"]_vars

\* A round accepted a card, lost the next one to a failure, accepted the one
\* after it and went on to the end of the round.
C9_Witness ==
  /\ pc \in {"test", "advance"}
  /\ trail = <<"accepted", "failed", "accepted">>

\* C10: once the round loop has started no fault inside it reaches the
\* caller as an exception.
C10_NeverRaises == exit_by # "raised"

\* C11: a query/filter step that fails, by whatever failure, makes the
\* harvest return the empty list at once: no round, no extraction, no
\* exception.
C11_FilterFailureReturnsEmpty ==
  exit_by \in {"filter_timeout", "filter_error"} =>
    (pc = "done" /\ scraped = <<>> /\ rounds = 0)

\* C12: robust_navigate ends in success or failure, and it never loads the
\* page more than 5 times.
C12_BoundedAttempts ==
  /\ [](Len(Loads(log)) <= 5)
  /\ <>(npc \in {"success", "failed"})

\* The fifth load failed and robust_navigate raised.
C12_Witness ==
  npc = "failed" /\ Len(Loads(log)) = 5

\* C13: a rate-limit failure of attempt k (1-based) with k < max_retries
\* sleeps base_wait_time^k plus a jitter in [0, 5] and goes to the next
\* attempt; with k = max_retries it raises without a sleep.
C13_RateLimitBackoff ==
  [][(npc = "except" /\ IsRateLimit(err)) =>
       IF attempt + 1 < max_retries
         THEN /\ npc' = "prewait"
              /\ attempt' = attempt + 1
              /\ Len(log') = Len(log) + 1
              /\ log'[Len(log')].ev = "backoff"
              /\ log'[Len(log')].dur - Pow(base_wait_time, attempt + 1) \in 0..5
         ELSE npc' = "failed" /\ log' = log]_vars

\* The third attempt was rate-limited and the controller slept 10^3 + jitter.
C13_Witness ==
  /\ npc = "prewait" /\ attempt = 3
  /\ log[Len(log)].ev = "backoff" /\ log[Len(log)].res = "http_response_code_failure"
  /\ log[Len(log)].dur >= 1000

\* C14: of two backoff sleeps in a row, the later is strictly longer when
\* both follow a rate-limit failure, and both last base_wait_time when both
\* follow another failure.
C14_BackoffGrowth ==
  LET b == Backoffs(log) IN
    \A i \in 1..(Len(b) - 1) :
      /\ (IsRateLimit(b[i].res) /\ IsRateLimit(b[i + 1].res))
           => b[i + 1].dur > b[i].dur
      /\ (~IsRateLimit(b[i].res) /\ ~IsRateLimit(b[i + 1].res))
           => (b[i].dur = base_wait_time /\ b[i + 1].dur = base_wait_time)

\* Two rate-limit sleeps in a row, the first with the largest jitter and the
\* second with the smallest, then two sleeps after timeouts.
C14_Witness ==
  LET b == Backoffs(log) IN
    /\ Len(b) = 4
    /\ IsRateLimit(b[1].res) /\ b[1].dur = base_wait_time + 5
    /\ IsRateLimit(b[2].res) /\ b[2].dur = base_wait_time * base_wait_time
    /\ b[3].res = "timeout" /\ b[4].res = "timeout"

\* C15: when the first j attempts fail with something else than the
\* rate-limit signal and attempt j+1 succeeds, robust_navigate returns after
\* j+1 page loads and j backoff sleeps of base_wait_time seconds each.
C15_TransientThenSuccess ==
  (npc = "success" /\ \A i \in 1..Len(Failures(log)) : ~IsRateLimit(Failures(log)[i].res))
    => /\ Len(Loads(log)) = Len(Failures(log)) + 1
       /\ Len(Backoffs(log)) = Len(Failures(log))
       /\ \A i \in 1..Len(Backoffs(log)) : Backoffs(log)[i].dur = base_wait_time

\* Scenario B: the readiness wait timed out on attempts 1 and 2, attempt 3
\* succeeded.
C15_Witness ==
  /\ npc = "success"
  /\ Len(Failures(log)) = 2
  /\ \A i \in 1..2 : Failures(log)[i].ev = "ready" /\ Failures(log)[i].res = "timeout"
  /\ Len(Loads(log)) = 3

\* C16: when every attempt is rate-limited, robust_navigate raises after
\* max_retries page loads and max_retries - 1 backoff sleeps of strictly
\* increasing length, the last failed load being followed by no sleep.
C16_AllRateLimited ==
  (npc = "failed" /\ \A i \in 1..Len(Loads(log)) : IsRateLimit(Loads(log)[i].res))
    => /\ Len(Loads(log)) = max_retries
       /\ Len(Backoffs(log)) = max_retries - 1
       /\ \A i \in 1..(Len(Backoffs(log)) - 1) :
            Backoffs(log)[i + 1].dur > Backoffs(log)[i].dur
       /\ log[Len(log)].ev = "goto"

\* Scenario D: five rate-limited loads, four sleeps, then the raise.
C16_Witness ==
  /\ npc = "failed" /\ IsRateLimit(err)
  /\ Len(Loads(log)) = 5 /\ Len(Backoffs(log)) = 4
  /\ \A i \in 1..5 : IsRateLimit(Loads(log)[i].res)

\* The failures that are contract violations rather than a slow or
\* throttling site.
Fatal == {"invalid_url", "foreign"}

\* C17: a fatal failure is raised on the attempt where it occurs: no backoff
\* sleep and no further page load follow it.
C17_FatalRaisedAtOnce ==
  [][(npc = "except" /\ err \in Fatal) => (npc' = "failed" /\ log' = log)]_vars

\* C18: robust_navigate returns only from an attempt whose page load and
\* readiness wait both went through.
C18_SuccessMeansReady ==
  npc = "success" =>
    /\ Len(log) >= 4
    /\ log[Len(log)] = Event("postwait", "ok", 0)
    /\ log[Len(log) - 1] = Event("ready", "ok", 0)
    /\ log[Len(log) - 2] = Event("goto", "ok", 0)
    /\ log[Len(log) - 3] = Event("prewait", "ok", 0)

\* Success on the last attempt after four failures of both kinds.
C18_Witness ==
  /\ npc = "success" /\ attempt = max_retries - 1
  /\ \E i \in 1..Len(Failures(log)) : Failures(log)[i].ev = "ready"
  /\ \E i \in 1..Len(Failures(log)) : Failures(log)[i].ev = "goto"

\* C19: every scraping call and save_storage_state raises RuntimeError and
\* starts nothing while the session is not authenticated, which is the case
\* before a successful enter and after close() or a failed enter.
C19_CallsNeedAuthentication ==
  /\ []((last[1] \in Ops /\ ~IsAuthenticated(authenticated, page))
          => last[2] = "RuntimeError")
  /\ []((last[1] \in {"none", "close", "exit"} \/ (last[1] = "enter" /\ last[2] # "ok"))
          => ~IsAuthenticated(authenticated, page))
  /\ [][(~IsAuthenticated(authenticated, page) /\ last'[1] \in Ops)
          => ~IsAuthenticated(authenticated', page')]_vars

\* A call on a session that was entered and closed: the page object is still
\* there, the call raises RuntimeError all the same.
C19_Witness ==
  /\ last[1] \in Ops /\ last[2] = "RuntimeError"
  /\ page # "None" /\ ~authenticated

\* C20: after close() or __exit__ the browser is released, the session
\* holds no browser session, context or page, is not authenticated, and the
\* call did not raise.
C20_CloseReleases ==
  last[1] \in {"close", "exit"} =>
    /\ last[2] = "ok"
    /\ browser_session = "None" /\ context = "None" /\ page = "None"
    /\ ~IsAuthenticated(authenticated, page)
    /\ browsers = 0

\* Whether the card handled by this step got the trail entry t.
Handled(t) == Len(trail') = Len(trail) + 1 /\ trail'[Len(trail')] = t

\* C23: a card whose key is already seen is discarded, also when its
\* content differs from the record stored under that key: the records (and
\* so the content of the first occurrence) and the seen set stay as they
\* are.
C23_LaterOccurrenceDiscarded ==
  [][(Handled("duplicate") \/ Handled("duplicate_changed"))
       => (scraped' = scraped /\ seen' = seen /\ idx' = idx + 1)]_vars

\* A harvest returned after its last round met an accepted key again with
\* other content.
C23_Witness ==
  /\ pc = "done" /\ Len(scraped) >= 1
  /\ \E i \in 1..Len(trail) : trail[i] = "duplicate_changed"

\* C24: no step takes a key out of the seen set, and no step makes the
\* list of records shorter.
C24_SeenAndRecordsGrow ==
  [][seen \subseteq seen' /\ Len(scraped') >= Len(scraped)]_vars

\* A harvest returned with two keys, the second accepted in a later round
\* than the first, in a round that also lost a card to a failure.
C24_Witness ==
  /\ pc = "done" /\ rounds >= 2
  /\ prev_len >= 1 /\ Len(scraped) > prev_len /\ Cardinality(seen) >= 2
  /\ \E i \in 1..Len(trail) : trail[i] = "failed"

\* C25: no accepted employee has a name containing "LinkedIn Member", no
\* accepted job comes from a link without a numeric job id, and a card
\* that fails this test adds nothing to the records or the seen set.
C25_InvalidNeverAccepted ==
  /\ [](\A i \in 1..Len(scraped) :
          IF kind = "employees"
            THEN ~IsAnonymous(scraped[i].item.name)
            ELSE scraped[i].item.job_id # 0 /\ scraped[i].key # 0)
  /\ [][Handled("filtered") => (scraped' = scraped /\ seen' = seen)]_vars

\* A round of scrape_employees accepted a card and turned down an
\* anonymous one.
C25_Witness ==
  /\ kind = "employees" /\ pc = "test"
  /\ \E i \in 1..Len(trail) : trail[i] = "filtered"
  /\ \E i \in 1..Len(trail) : trail[i] \in {"accepted", "accepted_retry"}

\* C29: at the end of every round the seen keys are exactly the keys of the
\* records; a key enters the seen set only in the step that appends its
\* record, so a key that was turned down is not seen and is accepted when
\* a later round brings it again in acceptable form.
C29_SeenIsKeysOfRecords ==
  /\ [](pc \in {"test", "advance", "done"} => seen = KeysOf(scraped))
  /\ [](rejected \cap seen = {})
  /\ [][seen' # seen =>
          /\ Len(scraped') = Len(scraped) + 1
          /\ seen' = seen \cup {scraped'[Len(scraped')].key}
          /\ scraped'[Len(scraped')].key \notin seen]_vars

\* A round accepted a key that an earlier round had turned down.
C29_Witness ==
  /\ pc \in {"test", "advance"} /\ rounds >= 2
  /\ \E i \in 1..Len(trail) : trail[i] = "accepted_retry"
  /\ \A i \in 1..Len(trail) : trail[i] \notin {"filtered", "failed"}

PreWaits(lg) == Select(lg, {"prewait"})
PostWaits(lg) == Select(lg, {"postwait"})

\* C26: in the history of robust_navigate every page load directly follows
\* a pre-wait sleep, every readiness wait directly follows a page load
\* that went through, every attempt after the first (a retry) starts with
\* the pre-wait sleep right after the backoff sleep, and the post-wait
\* sleep occurs once, as the last step of the successful attempt, and not
\* at all otherwise.
C26_StepOrder ==
  /\ \A i \in 1..Len(log) :
       /\ log[i].ev = "goto" => (i > 1 /\ log[i - 1].ev = "prewait")
       /\ log[i].ev = "ready" => (i > 1 /\ log[i - 1] = Event("goto", "ok", 0))
       /\ log[i].ev = "prewait" => (i = 1 \/ log[i - 1].ev = "backoff")
       /\ log[i].ev = "backoff" =>
            (i > 1 /\ log[i - 1].ev \in {"goto", "ready"} /\ log[i - 1].res # "ok")
       /\ log[i].ev = "postwait" =>
            (i = Len(log) /\ i > 1 /\ log[i - 1] = Event("ready", "ok", 0))
  /\ Len(Loads(log)) <= Len(PreWaits(log))
  /\ Len(PostWaits(log)) = (IF npc = "success" THEN 1 ELSE 0)

\* The third attempt succeeded; the first failed in the readiness wait, and
\* the retry began with the pre-wait sleep and the page load all the same.
C26_Witness ==
  /\ npc = "success"
  /\ Len(PreWaits(log)) = 3 /\ Len(Loads(log)) = 3 /\ Len(Backoffs(log)) = 2
  /\ Failures(log)[1].ev = "ready"

\* C27: when the attempts are used up, robust_navigate raises the failure
\* of the last attempt, with no sleep behind it, whatever the attempts
\* before it failed with.
C27_FinalFailureRaised ==
  (npc = "failed" /\ Len(Loads(log)) = max_retries) =>
    /\ log[Len(log)].ev \in {"goto", "ready"}
    /\ log[Len(log)].res = err
    /\ err # "ok"

\* Four timeouts, then a rate-limited fifth load: the rate-limit failure is
\* what is raised.
C27_Witness ==
  /\ npc = "failed" /\ Len(Loads(log)) = max_retries
  /\ IsRateLimit(err)
  /\ \A i \in 1..(max_retries - 1) : Failures(log)[i].res = "timeout"

\* C30: the sleep after a rate-limit failure is base_wait_time to the power
\* of the number of page loads so far (the 1-based attempt) plus a jitter
\* in [0, 5], whatever the earlier attempts failed with.
C30_ExponentIsAttempt ==
  \A i \in 1..Len(log) :
    (log[i].ev = "backoff" /\ IsRateLimit(log[i].res)) =>
      log[i].dur - Pow(base_wait_time, Len(Loads(SubSeq(log, 1, i)))) \in 0..5

\* Two timeouts, then the first rate-limit failure on attempt 3: the sleep
\* is 10^3 plus jitter.
C30_Witness ==
  /\ Len(Failures(log)) = 3 /\ Len(Backoffs(log)) = 3
  /\ Failures(log)[1].res = "timeout" /\ Failures(log)[2].res = "timeout"
  /\ IsRateLimit(Failures(log)[3].res)
  /\ Backoffs(log)[3].dur \in 1000..1005

\* What __enter__ can fail with before close() is called.
EnterFailures == {"playwright_failed", "launch_failed", "login_failed"}

\* C28: an __enter__ that fails leaves the session closed (no browser
\* session, context or page, not authenticated) and the caller gets the
\* exception that made it fail.
C28_FailedEnterClosesAndReraises ==
  (last[1] = "enter" /\ last[2] # "ok") =>
    /\ last[2] \in EnterFailures
    /\ browser_session = "None" /\ context = "None" /\ page = "None"
    /\ ~IsAuthenticated(authenticated, page)

\* The positions in the history where the employee harvest was started.
HarvestStarts == {i \in 1..Len(calls) : calls[i].op = "scrape_employees"}

PeopleNavs ==
  {i \in 1..Len(calls) :
     calls[i].op = "robust_navigate" /\ calls[i].arg = "people"}

\* C22: scrape_profile starts the employee harvest only when get_employees
\* is true or a keyword is given, and only right after robust_navigate to
\* the people view has returned; a scrape_profile that returns has started
\* it exactly when one of the two was asked for; and when that navigation
\* raises, the harvest is not started and the exception leaves
\* scrape_profile.
C22_HarvestAfterPeopleNavigation ==
  /\ \A i \in HarvestStarts :
       /\ get_employees \/ employee_keyword \notin {"None", ""}
       /\ i > 1
       /\ calls[i - 1] = CallEvent("robust_navigate", "people", "ok")
  /\ cpc = "returned" =>
       ((HarvestStarts # {}) = (get_employees \/ employee_keyword \notin {"None", ""}))
  /\ \A i \in PeopleNavs :
       calls[i].res # "ok" =>
         (HarvestStarts = {} /\ cpc = "raised" /\ cerr = calls[i].res)

\* The call of the company test (get_employees=True, employee_keyword="CEO"):
\* main page, about page, people view, then the harvest, and the profile is
\* returned.
C22_Witness ==
  /\ cpc = "returned" /\ get_employees /\ employee_keyword = "CEO"
  /\ Len(calls) = 4
  /\ calls[3] = CallEvent("robust_navigate", "people", "ok")
  /\ calls[4] = CallEvent("scrape_employees", "CEO", "returned")

\* C21: two runs of the harvest on pages of their own do not touch each
\* other: however their steps interleave, each run holds the records and
\* seen keys it would hold alone for the cards its own page handed over, a
\* step of one run leaves the lists of the other as they are, and so a key
\* accepted by one run is still new to the other.
C21_RunsAreIndependent ==
  /\ [](\A h \in Runs :
          /\ p_scraped[h] = Alone(p_fed[h]).scraped
          /\ p_seen[h] = Alone(p_fed[h]).seen)
  /\ [][\A h \in Runs :
          p_fed'[h] = p_fed[h] =>
            (p_scraped'[h] = p_scraped[h] /\ p_seen'[h] = p_seen[h])]_vars

\* The two runs took turns; run 1 accepted a card, then run 2 was handed
\* the same card and accepted it as well, and both returned.
C21_Witness ==
  /\ \A h \in Runs : p_pc[h] = "done"
  /\ p_order = <<1, 2, 1, 2>>
  /\ p_fed[1][1] = p_fed[2][1]
  /\ Len(p_scraped[1]) >= 1 /\ Len(p_scraped[2]) >= 1
  /\ p_scraped[1][1] = p_scraped[2][1]

\* C31: when the first round of scrape_employees accepts nothing, the
\* no-new-record test ends the harvest right there: the advance block is
\* not entered, the control is left as it was, and the empty list is
\* returned after that one round.
C31_EmptyFirstRoundReturns ==
  /\ []((kind = "employees" /\ pc = "advance") => scraped # <<>>)
  /\ []((kind = "employees" /\ pc = "done" /\ rounds >= 1 /\ scraped = <<>>)
          => (rounds = 1 /\ exit_by = "converged"))
  /\ [][(kind = "employees" /\ pc = "test" /\ scraped = <<>>)
          => (pc' = "done" /\ scraped' = <<>> /\ control' = control)]_vars

\* The first extraction brought a placeholder card and a card that failed;
\* the harvest returned the empty list although show-more was available.
C31_Witness ==
  /\ kind = "employees" /\ pc = "done" /\ exit_by = "converged"
  /\ rounds = 1 /\ scraped = <<>>
  /\ trail = <<"filtered", "failed">>
  /\ control = [forever |-> FALSE, left |-> MaxPages]

\* C32: when the wait for the list container times out, the harvest
\* returns the empty list: no round, no extraction, no exception.
C32_NoContainerReturnsEmpty ==
  exit_by = "no_container" =>
    (pc = "done" /\ scraped = <<>> /\ seen = {} /\ rounds = 0)

\* A job search whose filter step went through and whose result list
\* never showed up.
C32_Witness ==
  kind = "jobs" /\ exit_by = "no_container" /\ pc = "done"

\* C33: whenever is_authenticated() is true the session holds a browser
\* session, a context and a page.
C33_AuthenticatedHoldsResources ==
  IsAuthenticated(authenticated, page) =>
    (browser_session # "None" /\ context # "None" /\ page # "None")

\* A scraping call went through on an entered session.
C33_Witness ==
  /\ last[1] \in Ops /\ last[2] = "started"
  /\ IsAuthenticated(authenticated, page)
  /\ browser_session # "None" /\ context # "None"

\* C34: a session is authenticated only after a login (password or cookie)
\* that went through, or with a stored state that was loaded into the
\* browser context; a session made by from_storage_state whose file does
\* not exist is not authenticated after entering.
C34_AuthenticatedMeansLoggedIn ==
  IsAuthenticated(authenticated, page) =>
    (auth_mode \in {"password", "cookie"} \/ state_loaded)

\* C35: close() on a session that was never entered, or directly after
\* another close(), does not raise and leaves the session without browser
\* session, context and page and not authenticated.
C35_CloseIsIdempotent ==
  [][(last'[1] \in {"close", "exit"} /\ last[1] \in {"none", "close", "exit"})
       => /\ last'[2] = "ok"
          /\ browser_session' = "None" /\ context' = "None" /\ page' = "None"
          /\ ~IsAuthenticated(authenticated', page')]_vars

C37_ConnectionsOnlyAppend ==
  /\ [](qpc \in {"idle", "goto", "wait", "container", "cards", "done"})
  /\ [](IsPrefix(q_before, contacts_list))
  /\ [][IsPrefix(contacts_list, contacts_list')]_vars
  /\ [][(Len(q_trail') = Len(q_trail) + 1
          /\ q_trail'[Len(q_trail')] \in {"failed", "none"})
         => (contacts_list' = contacts_list /\ q_idx' = q_idx + 1)]_vars
  /\ [](qpc = "done" => (q_idx = q_cards /\ Len(q_trail) = q_cards))

\* The caller's list held two contacts; of three cards the second failed,
\* the first and the third were appended behind the two.
C37_Witness ==
  /\ qpc = "done" /\ Len(q_before) = 2
  /\ q_trail = <<"appended", "failed", "appended">>
  /\ Len(contacts_list) = 4
  /\ SubSeq(contacts_list, 1, 2) = q_before
====
